---- MODULE Spec2Model ----
(***************************************************************************)
(* A model of the MongoDB storage handler of rested-mongo (src/mongo.go).  *)
(* The collection is a partial function from identifiers to documents; one *)
(* action per Handler method, each recording the call, the collection as   *)
(* it was before the call, the store operations it issued and its result.  *)
(* clr holds a windowed Clear that has run its pre-pass and not yet its    *)
(* bulk delete, where the two are taken as separate steps.                 *)
(***************************************************************************)
EXTENDS Integers, Sequences, FiniteSets, TLC

VARIABLES store, last, clr

vars == <<store, last, clr>>

\* clr when no windowed Clear is between its pre-pass and its bulk delete
NoClear == [pending |-> FALSE]

(* ---------------------------------------------------------------------- *)
(* Bounds and value sets                                                  *)
(* ---------------------------------------------------------------------- *)

\* number of distinct identifiers a document can have
MaxId == 2

IDs == 1 .. MaxId

\* values of the filterable payload field "name"
Names == {"x", "y"}

\* version tags are strings, modelled as sequences of characters
TagA == <<"a">>

TagB == <<"b">>

RealTags == {TagA, TagB}

\* fmt.Sprint(id): the identifier rendered as text
IdText(id) == <<ToString(id)>>

\* the synthetic version tag newItem gives a document without _etag
SyntheticTag(id) == <<"p", "-">> \o IdText(id)

\* strings.HasPrefix
HasPrefix(s, prefix) ==
    /\ Len(s) >= Len(prefix)
    /\ SubSeq(s, 1, Len(prefix)) = prefix

\* a stored document: _etag may be absent (hasEtag = FALSE)
Docs ==
    [hasEtag : {TRUE}, etag : RealTags, name : Names]
        \cup [hasEtag : {FALSE}, etag : {<< >>}, name : Names]

\* every content the collection can have
Stores == UNION {[S -> Docs] : S \in SUBSET IDs}

\* the error values a Handler method returns
ErrNil == "nil"

ErrNotFound == "ErrNotFound"

ErrConflict == "ErrConflict"

ErrNoDocuments == "ErrNoDocuments"

\* ctx.Err() of a done context, and a driver error caused by it
ErrCtx == "ctxErr"

\* any other failure reported by the store
ErrStore == "storeErr"

\* a caller's context: live, or already cancelled when the call is made
Contexts == {"live", "done"}

\* ctx.Err()
CtxErr(ctx) == IF ctx = "done" THEN ErrCtx ELSE ErrNil

(* what a store round trip can do: complete, fail, or (only under a done   *)
(* context) be abandoned by the driver before it takes effect.  A done     *)
(* context does not stop a round trip that is already on its way, so "ok"  *)
(* remains possible.                                                       *)
StoreOutcomes(ctx) ==
    IF ctx = "done" THEN {"ok", "cancelled"} ELSE {"ok", "failed"}

\* the error of a round trip that did not complete
OutcomeErr(out) ==
    CASE out = "ok" -> ErrNil
      [] out = "cancelled" -> ErrCtx
      [] OTHER -> ErrStore

(* ---------------------------------------------------------------------- *)
(* Item translation                                                       *)
(* ---------------------------------------------------------------------- *)

\* newMongoItem: the document written for an item (the _etag is always set)
newMongoItem(item) ==
    [hasEtag |-> TRUE, etag |-> item.etag, name |-> item.name]

(* ---------------------------------------------------------------------- *)
(* Item translation on whole items                                        *)
(* ---------------------------------------------------------------------- *)

\* the keys a payload can have
PayloadKeys == {"id", "name"}

\* payload values, identifiers among them
PayloadVals == IDs

\* a payload: a mapping from some of the keys to values
Payloads == UNION {[K -> PayloadVals] : K \in SUBSET PayloadKeys}

\* the version tags of an item; the empty string is an absent version
ItemTags == {<< >>} \cup RealTags

\* the values of the last-modified timestamp
Timestamps == {0, 1}

\* resource.Item
Items == [ID : IDs, ETag : ItemTags, Updated : Timestamps, Payload : Payloads]

\* newMongoItem on a whole item: the payload without its "id" key
newMongoItemOf(i) ==
    [ID |-> i.ID,
     ETag |-> i.ETag,
     Updated |-> i.Updated,
     Payload |-> [k \in DOMAIN i.Payload \ {"id"} |-> i.Payload[k]]]

\* newItemOf that does not put the identifier back into the payload
newItemOf_NoId(m) ==
    [ID |-> m.ID,
     ETag |-> IF m.ETag = << >> THEN SyntheticTag(m.ID) ELSE m.ETag,
     Updated |-> m.Updated,
     Payload |-> m.Payload]

\* newItem on a whole mongoItem: "id" is set to the identifier, and an
\* empty version tag becomes the synthetic one
newItemOf(m) ==
    [ID |-> m.ID,
     ETag |-> IF m.ETag = << >> THEN SyntheticTag(m.ID) ELSE m.ETag,
     Updated |-> m.Updated,
     Payload |-> [k \in DOMAIN m.Payload \cup {"id"} |->
                    IF k = "id" THEN m.ID ELSE m.Payload[k]]]

\* an item is translated to a mongoItem and back
Translate(i) ==
    /\ last.op = "none"
    /\ store' = store
    /\ last' = [op |-> "Translate", item |-> i, mItem |-> newMongoItemOf(i),
                back |-> newItemOf(newMongoItemOf(i))]

(* ---------------------------------------------------------------------- *)
(* Insert                                                                 *)
(* ---------------------------------------------------------------------- *)

\* the lengths of the item sequences a caller inserts
ItemCounts == {1, 2}

\* the items a caller can insert
InsertItems == [id : IDs, etag : RealTags, name : Names]

\* the documents of items[1 .. n] added to st, in order
RECURSIVE InsertedPrefix(_, _, _)
InsertedPrefix(st, items, n) ==
    IF n = 0 THEN st
    ELSE LET before == InsertedPrefix(st, items, n - 1)
             it == items[n]
         IN [i \in DOMAIN before \cup {it.id} |->
                IF i = it.id THEN newMongoItem(it) ELSE before[i]]

\* the index of the first item whose identifier is taken when its turn
\* comes, or Len(items) + 1
FirstDuplicate(st, items) ==
    LET Taken(n) ==
            \/ items[n].id \in DOMAIN st
            \/ \E m \in 1 .. n - 1 : items[m].id = items[n].id
        dups == {n \in 1 .. Len(items) : Taken(n)}
    IN IF dups = {} THEN Len(items) + 1
       ELSE CHOOSE n \in dups : \A m \in dups : n <= m

(* c.InsertMany(ctx, mItems): an ordered insert that stops at the first    *)
(* duplicate identifier, the documents before it staying inserted.         *)
InsertMany(st, items, out) ==
    LET d == FirstDuplicate(st, items) IN
    IF out = "ok"
    THEN [store |-> InsertedPrefix(st, items, d - 1),
          err |-> IF d <= Len(items) THEN "duplicateKey" ELSE ErrNil]
    ELSE [store |-> st, err |-> OutcomeErr(out)]

\* InsertReturn without the translation of the duplicate-key error
InsertReturn_KeepsStoreError(err, ctx) ==
    IF CtxErr(ctx) # ErrNil THEN CtxErr(ctx) ELSE err

\* what Insert returns for the error of InsertMany
InsertReturn(err, ctx) ==
    LET e == IF err = "duplicateKey" THEN ErrConflict ELSE err
    IN IF CtxErr(ctx) # ErrNil THEN CtxErr(ctx) ELSE e

\* Handler.Insert(ctx, items)
Insert(items, ctx, out) ==
    LET w == InsertMany(store, items, out) IN
    /\ last.op = "none"
    /\ store' = w.store
    /\ last' = [op |-> "Insert", items |-> items, ctx |-> ctx, out |-> out,
                pre |-> store, calls |-> <<"InsertMany">>,
                err |-> InsertReturn(w.err, ctx)]

(* ---------------------------------------------------------------------- *)
(* Concurrency guard: Update and Delete                                   *)
(* ---------------------------------------------------------------------- *)

\* the selector s on _etag that Update and Delete build from a version tag
SelectorMatches(doc, tag) ==
    IF HasPrefix(tag, <<"p", "-">>)
    THEN ~doc.hasEtag
    ELSE doc.hasEtag /\ doc.etag = tag

\* a payload field that an item or a document does not have
NoField == "-"

\* {"$set": mItem} applied to a document: _etag and every payload field of
\* mItem are written, a field mItem does not have is left as it is
SetFields(doc, mItem) ==
    [hasEtag |-> TRUE,
     etag |-> mItem.etag,
     name |-> IF mItem.name = NoField THEN doc.name ELSE mItem.name]

(* c.UpdateByID(ctx, id, {"$set": mItem}): the filter is the identifier    *)
(* alone; no matching document is a result with a matched count of 0 and a *)
(* nil error.                                                              *)
UpdateByID(st, id, mItem, out) ==
    IF out = "ok"
    THEN [store |-> IF id \in DOMAIN st
                    THEN [st EXCEPT ![id] = SetFields(st[id], mItem)]
                    ELSE st,
          err |-> ErrNil]
    ELSE [store |-> st, err |-> OutcomeErr(out)]

(* c.DeleteOne(ctx, s): removes the document that matches identifier and   *)
(* version selector; no matching document is a deleted count of 0 and a    *)
(* nil error.                                                              *)
DeleteOne(st, id, tag, out) ==
    IF out = "ok"
    THEN [store |-> IF id \in DOMAIN st /\ SelectorMatches(st[id], tag)
                    THEN [i \in DOMAIN st \ {id} |-> st[i]]
                    ELSE st,
          err |-> ErrNil]
    ELSE [store |-> st, err |-> OutcomeErr(out)]

(* the disambiguating read of Update and Delete, taken only when the write *)
(* returned mongo.ErrNoDocuments: FindOne by identifier, then Decode.      *)
Disambiguate(st, id, ctx) ==
    IF id \notin DOMAIN st THEN ErrNotFound
    ELSE IF CtxErr(ctx) # ErrNil THEN CtxErr(ctx)
    ELSE ErrConflict

\* what Update and Delete return for the error of their write
GuardReturn(err, st, id, ctx) ==
    IF err = ErrNoDocuments THEN Disambiguate(st, id, ctx) ELSE err

\* the errors the handling of a write's error is applied to
WriteErrors == {ErrNil, ErrStore, ErrCtx, ErrNoDocuments}

\* lines 120-135 and 153-166 on their own: the error of the write is
\* turned into the error Update and Delete return
ApplyGuard(err, id, ctx) ==
    /\ last.op = "none"
    /\ store' = store
    /\ last' = [op |-> "Guard", werr |-> err, id |-> id, ctx |-> ctx,
                pre |-> store, err |-> GuardReturn(err, store, id, ctx)]

\* Handler.Update(ctx, item, original); item and original share the identifier
Update(id, item, origTag, ctx, out) ==
    LET w == UpdateByID(store, id, newMongoItem(item), out) IN
    /\ last.op = "none"
    /\ store' = w.store
    /\ last' = [op |-> "Update", id |-> id, item |-> item, tag |-> origTag,
                ctx |-> ctx, out |-> out, pre |-> store,
                calls |-> <<"UpdateByID">>,
                err |-> GuardReturn(w.err, w.store, id, ctx)]

\* Handler.Delete(ctx, item)
Delete(id, tag, ctx, out) ==
    LET w == DeleteOne(store, id, tag, out) IN
    /\ last.op = "none"
    /\ store' = w.store
    /\ last' = [op |-> "Delete", id |-> id, tag |-> tag,
                ctx |-> ctx, out |-> out, pre |-> store,
                calls |-> <<"DeleteOne">>,
                err |-> GuardReturn(w.err, w.store, id, ctx)]

\* the version tags a caller can hold for identifier id
CallerTags(id) == RealTags \cup {SyntheticTag(id)}

\* the items a caller can write: a version tag and a payload with or
\* without the field "name"
NewItems == [etag : RealTags, name : Names \cup {NoField}]

(* ---------------------------------------------------------------------- *)
(* Queries                                                                *)
(* ---------------------------------------------------------------------- *)

\* q.Window: nil (present = FALSE) or an offset and a limit
NoWindow == [present |-> FALSE, offset |-> 0, limit |-> 0]

Windows ==
    {NoWindow} \cup [present : {TRUE}, offset : 0 .. MaxId - 1, limit : 0 .. MaxId]

\* sort on the identifier, ascending or descending
Sorts == {"id", "-id"}

\* a query's predicate is every document ("all"), a value of "name", or
\* one the translation rejects ("invalid")
Queries ==
    [filter : {"all", "x"}, sort : Sorts, window : Windows]
        \cup {[filter |-> "invalid", sort |-> "id", window |-> NoWindow]}

ErrQuery == "queryErr"

\* getQuery: the native filter of a query, or an error
getQuery(q) ==
    IF q.filter = "invalid"
    THEN [err |-> ErrQuery, filter |-> "all"]
    ELSE [err |-> ErrNil, filter |-> q.filter]

\* getSort: find options carrying the query's sort; skip and limit unset (0)
getSort(q) == [sort |-> q.sort, skip |-> 0, limit |-> 0]

\* applyWindow: the window's offset and limit as the native skip and limit
applyWindow(options, w) ==
    IF w.present
    THEN [options EXCEPT !.skip = w.offset, !.limit = w.limit]
    ELSE options

\* does a stored document satisfy a native filter
Matches(doc, filter) == filter = "all" \/ doc.name = filter

\* the identifiers of the documents a native filter matches
Matching(st, filter) == {i \in DOMAIN st : Matches(st[i], filter)}

IdSeq == [i \in 1 .. MaxId |-> i]

Reverse(s) == [i \in 1 .. Len(s) |-> s[Len(s) + 1 - i]]

\* the identifiers of S in the order of a sort directive
Sorted(S, sort) ==
    LET In(i) == i \in S
        asc == SelectSeq(IdSeq, In)
    IN IF sort = "-id" THEN Reverse(asc) ELSE asc

Min(a, b) == IF a < b THEN a ELSE b

(* c.Find(ctx, qry, options) read to the end: the matching identifiers in  *)
(* sort order, after the skip, cut at the limit; the store reads a limit   *)
(* of 0 as no limit.                                                       *)
NativeFind(st, filter, options) ==
    LET all == Sorted(Matching(st, filter), options.sort)
        rest == SubSeq(all, options.skip + 1, Len(all))
    IN IF options.limit > 0
       THEN SubSeq(rest, 1, Min(options.limit, Len(rest)))
       ELSE rest

\* selectIDs: the identifiers of a cursor, collected
selectIDs(cursor) == {cursor[i] : i \in 1 .. Len(cursor)}

(* ---------------------------------------------------------------------- *)
(* Count                                                                  *)
(* ---------------------------------------------------------------------- *)

\* c.CountDocuments(ctx, q): the count, or 0 and an error
CountDocuments(st, filter, out) ==
    IF out = "ok"
    THEN [n |-> Cardinality(Matching(st, filter)), err |-> ErrNil]
    ELSE [n |-> 0, err |-> OutcomeErr(out)]

\* Handler.Count(ctx, query)
CountRun(st, q, out) ==
    LET qry == getQuery(q) IN
    IF qry.err # ErrNil
    THEN [n |-> -1, err |-> qry.err, calls |-> << >>]
    ELSE LET c == CountDocuments(st, qry.filter, out)
         IN [n |-> c.n, err |-> c.err, calls |-> <<"CountDocuments">>]

Count(q, out) ==
    /\ last.op = "none"
    /\ store' = store
    /\ last' = [op |-> "Count", q |-> q, out |-> out, pre |-> store,
                res |-> CountRun(store, q, out)]

(* ---------------------------------------------------------------------- *)
(* Clear                                                                  *)
(* ---------------------------------------------------------------------- *)

\* FilterQry with the translated filter lost: an empty filter matches all
FilterQry_Empty(filter) == [kind |-> "filter", filter |-> "all", ids |-> {}]

\* the bulk delete's filter when there is no window: the translated filter
FilterQry(filter) == [kind |-> "filter", filter |-> filter, ids |-> {}]

\* InQry with the resolved identifiers lost: every identifier is in
InQry_All(ids) == [kind |-> "in", filter |-> "all", ids |-> IDs]

\* the bulk delete's filter after the pre-pass: {"_id": {"$in": ids}}
InQry(ids) == [kind |-> "in", filter |-> "all", ids |-> ids]

\* the identifiers of the documents a bulk-delete filter matches
QryMatching(st, qry) ==
    IF qry.kind = "in" THEN qry.ids \cap DOMAIN st ELSE Matching(st, qry.filter)

\* the pre-pass of a windowed Clear: the find options it builds
ClearOptions(q) == applyWindow(getSort(q), q.window)

(* c.DeleteMany(ctx, qry).  out = "ok": every match is removed.  out =     *)
(* "partial": a write error after the documents of part were removed; the  *)
(* result carries their number.  Otherwise no result (info is nil).        *)
DeleteMany(st, qry, out, part) ==
    LET hit == QryMatching(st, qry)
        gone == CASE out = "ok" -> hit
                  [] out = "partial" -> part \cap hit
                  [] OTHER -> {}
    IN [store |-> [i \in DOMAIN st \ gone |-> st[i]],
        hasInfo |-> out \in {"ok", "partial"},
        count |-> Cardinality(gone),
        err |-> IF out = "partial" THEN ErrStore ELSE OutcomeErr(out)]

\* ClearReturn with the count dropped whenever an error is returned
ClearReturn_ZeroOnError(hasInfo, count, err, ctx) ==
    LET e == IF err = ErrNil THEN CtxErr(ctx) ELSE err
    IN IF ~hasInfo \/ e # ErrNil THEN [n |-> 0, err |-> e] ELSE [n |-> count, err |-> e]

\* the end of Clear: the count and the error it returns
ClearReturn(hasInfo, count, err, ctx) ==
    LET e == IF err = ErrNil THEN CtxErr(ctx) ELSE err
    IN IF ~hasInfo THEN [n |-> 0, err |-> e] ELSE [n |-> count, err |-> e]

\* ClearQry with the pre-pass result not put in place of the filter
ClearQry_KeepsFilter(st, q, filter) == FilterQry(filter)

\* the filter Clear hands to the bulk delete once the pre-pass has run
ClearQry(st, q, filter) ==
    IF q.window.present
    THEN InQry(selectIDs(NativeFind(st, filter, ClearOptions(q))))
    ELSE FilterQry(filter)

(* Handler.Clear(ctx, q).  pre is the outcome of the pre-pass of a         *)
(* windowed Clear ("findFailed": c.Find fails; "idsFailed": selectIDs      *)
(* fails), out and part those of the bulk delete.                          *)
ClearRun(st, q, ctx, pre, out, part) ==
    LET qry == getQuery(q) IN
    IF qry.err # ErrNil
    THEN [store |-> st, n |-> 0, err |-> qry.err, calls |-> << >>]
    ELSE IF q.window.present /\ pre = "findFailed"
    THEN [store |-> st, n |-> 0, err |-> ErrStore, calls |-> <<"Find">>]
    ELSE IF q.window.present /\ pre = "idsFailed"
    THEN [store |-> st, n |-> 0, err |-> ErrStore, calls |-> <<"Find">>]
    ELSE LET d == DeleteMany(st, ClearQry(st, q, qry.filter), out, part)
             r == ClearReturn(d.hasInfo, d.count, d.err, ctx)
         IN [store |-> d.store, n |-> r.n, err |-> r.err,
             calls |-> IF q.window.present
                       THEN <<"Find", "DeleteMany">>
                       ELSE <<"DeleteMany">>]

Clear(q, ctx, pre, out, part) ==
    LET r == ClearRun(store, q, ctx, pre, out, part) IN
    /\ last.op = "none"
    /\ store' = r.store
    /\ last' = [op |-> "Clear", q |-> q, ctx |-> ctx, prepass |-> pre, out |-> out,
                part |-> part, pre |-> store,
                res |-> [n |-> r.n, err |-> r.err, calls |-> r.calls]]

(* ---------------------------------------------------------------------- *)
(* Find                                                                   *)
(* ---------------------------------------------------------------------- *)

\* newItem: the item of a stored document; a missing or empty _etag gives
\* the synthetic tag
newItem(id, doc) ==
    [id |-> id,
     etag |-> IF ~doc.hasEtag \/ doc.etag = << >> THEN SyntheticTag(id) ELSE doc.etag,
     name |-> doc.name]

\* FindTotal taking a full page for the last page too
FindTotal_FullPage(w, n) ==
    LET limit == IF w.present THEN w.limit ELSE -1 IN
    IF limit < 0 \/ n <= limit
    THEN IF w.present /\ w.offset > 0
         THEN IF n > 0 THEN w.offset + n ELSE -1
         ELSE n
    ELSE -1

\* the total Find infers from the window and the number of items it read
FindTotal(w, n) ==
    LET limit == IF w.present THEN w.limit ELSE -1 IN
    IF limit < 0 \/ n < limit
    THEN IF w.present /\ w.offset > 0
         THEN IF n > 0 THEN w.offset + n ELSE -1
         ELSE n
    ELSE -1

NoList == [hasList |-> FALSE, total |-> 0, limit |-> 0, items |-> << >>]

FindResult(panic, list, err, calls) ==
    [panic |-> panic, list |-> list, err |-> err, calls |-> calls]

\* Find's branch for a window with limit 0: only a Count
FindLimitZero(st, q, out) ==
    LET c == CountRun(st, q, out) IN
    IF c.err # ErrNil
    THEN FindResult(FALSE, NoList, c.err, c.calls)
    ELSE FindResult(FALSE,
                    [hasList |-> TRUE, total |-> c.n, limit |-> q.window.limit,
                     items |-> << >>],
                    c.err, c.calls)

(* Find's main read.  out = "findFailed": c.Find returns an error and no   *)
(* cursor, and mq.All dereferences the nil cursor.  out = "allFailed":     *)
(* mq.All stops after the first k documents, its error dropped.  out =     *)
(* "closeFailed": mq.Close returns an error.                               *)
FindMain(st, q, out, k) ==
    LET qry == getQuery(q)
        ids == NativeFind(st, qry.filter, applyWindow(getSort(q), q.window))
        read == IF out = "allFailed" THEN SubSeq(ids, 1, Min(k, Len(ids))) ELSE ids
        items == [i \in 1 .. Len(read) |-> newItem(read[i], st[read[i]])]
        limit == IF q.window.present THEN q.window.limit ELSE -1
    IN IF qry.err # ErrNil THEN FindResult(FALSE, NoList, qry.err, << >>)
       ELSE IF out = "findFailed" THEN FindResult(TRUE, NoList, ErrNil, <<"Find">>)
       ELSE IF out = "closeFailed" THEN FindResult(FALSE, NoList, ErrStore, <<"Find">>)
       ELSE FindResult(FALSE,
                       [hasList |-> TRUE, total |-> FindTotal(q.window, Len(items)),
                        limit |-> limit, items |-> items],
                       ErrNil, <<"Find">>)

\* FindRun without the branch for a limit of 0
FindRun_NoLimitZero(st, q, out, k) == FindMain(st, q, out, k)

\* Handler.Find(ctx, q)
FindRun(st, q, out, k) ==
    IF q.window.present /\ q.window.limit = 0
    THEN FindLimitZero(st, q, IF out = "ok" THEN "ok" ELSE "failed")
    ELSE FindMain(st, q, out, k)

Find(q, out, k) ==
    /\ last.op = "none"
    /\ store' = store
    /\ last' = [op |-> "Find", q |-> q, out |-> out, k |-> k,
                pre |-> store, res |-> FindRun(store, q, out, k)]

(* ---------------------------------------------------------------------- *)
(* Reading a document and deleting it with the item read                  *)
(* ---------------------------------------------------------------------- *)

\* a real version tag that begins with the marker of the synthetic ones
TagP == <<"p", "-", "z">>

\* the items a caller can insert when the version tag is any string: the
\* empty one and one that begins with "p-" included
TagItems == [id : IDs, etag : {<< >>, TagA, TagP}, name : {"x"}]

\* the query that reads the whole collection
ReadAll == [filter |-> "all", sort |-> "id", window |-> NoWindow]

\* the version tag of the item Find returns for the document id
ReadTag(st, id) ==
    LET items == FindRun(st, ReadAll, "ok", 0).list.items
        at == CHOOSE n \in 1 .. Len(items) : items[n].id = id
    IN items[at].etag

(* ---------------------------------------------------------------------- *)
(* A windowed Clear in two steps, among other callers                     *)
(* ---------------------------------------------------------------------- *)

\* the windowed queries cleared while other callers write
ConcQueries ==
    [filter : {"all"}, sort : {"id"},
     window : [present : {TRUE}, offset : 0 .. MaxId - 1, limit : 1 .. MaxId]]

\* the document the collection holds at first and other callers insert
ConcItems == [id : IDs, etag : {TagA}, name : {"x"}]

\* the collections at first
ConcStores == UNION {[S -> {newMongoItem([etag |-> TagA, name |-> "x"])}] : S \in SUBSET IDs}

(* Clear up to its bulk delete (lines 176-208): the pre-pass resolves the  *)
(* identifiers; fresh collects the identifiers inserted from here on.      *)
ClearFind(q) ==
    LET filter == getQuery(q).filter IN
    /\ last.op = "none"
    /\ ~clr.pending
    /\ store' = store
    /\ last' = [op |-> "ClearFind", q |-> q, pre |-> store]
    /\ clr' = [pending |-> TRUE, q |-> q,
               qry |-> ClearQry(store, q, filter),
               ids |-> selectIDs(NativeFind(store, filter, ClearOptions(q))),
               fresh |-> {}]

\* the rest of Clear (lines 210-219): the bulk delete on the collection as
\* it is by then
ClearDelete ==
    /\ last.op = "none"
    /\ clr.pending
    /\ LET d == DeleteMany(store, clr.qry, "ok", {})
           r == ClearReturn(d.hasInfo, d.count, d.err, "live")
       IN /\ store' = d.store
          /\ last' = [op |-> "Clear", q |-> clr.q, ctx |-> "live", prepass |-> "ok",
                      out |-> "ok", part |-> {}, pre |-> store,
                      ids |-> clr.ids, fresh |-> clr.fresh,
                      res |-> [n |-> r.n, err |-> r.err,
                               calls |-> <<"Find", "DeleteMany">>]]
    /\ clr' = NoClear

\* clr after another caller's write: the identifiers inserted since the
\* pre-pass and still stored
Tracked(st, st2) ==
    IF clr.pending
    THEN [clr EXCEPT !.fresh = (@ \cup (DOMAIN st2 \ DOMAIN st)) \cap DOMAIN st2]
    ELSE clr

\* the handler keeps nothing between calls: the caller takes the result
Return ==
    /\ last.op # "none"
    /\ last' = [op |-> "none"]
    /\ store' = store
    /\ clr' = clr

(* ---------------------------------------------------------------------- *)
(* Specification                                                          *)
(* ---------------------------------------------------------------------- *)

Init ==
    /\ store \in Stores
    /\ last = [op |-> "none"]
    /\ clr = NoClear

InsertStep ==
    /\ last.op = "none"
    /\ clr' = clr
    /\ \E n \in ItemCounts, ctx \in Contexts :
        \E items \in [1 .. n -> InsertItems], out \in StoreOutcomes(ctx) :
            Insert(items, ctx, out)

UpdateStep ==
    /\ last.op = "none"
    /\ clr' = clr
    /\ \E id \in IDs, item \in NewItems, ctx \in Contexts :
        \E tag \in CallerTags(id), out \in StoreOutcomes(ctx) :
            Update(id, item, tag, ctx, out)

DeleteStep ==
    /\ last.op = "none"
    /\ clr' = clr
    /\ \E id \in IDs, ctx \in Contexts :
        \E tag \in CallerTags(id), out \in StoreOutcomes(ctx) :
            Delete(id, tag, ctx, out)

(* the inputs of Clear: a bulk delete that completes or does not under     *)
(* either context, and under a live one a partial bulk delete (part is the *)
(* documents removed before the write error) or a failing pre-pass         *)
ClearStep ==
    /\ last.op = "none"
    /\ clr' = clr
    /\ \E q \in Queries :
        \/ \E ctx \in Contexts :
            \E out \in StoreOutcomes(ctx) : Clear(q, ctx, "ok", out, {})
        \/ \E part \in SUBSET (DOMAIN store) :
            /\ part # {}
            /\ Clear(q, "live", "ok", "partial", part)
        \/ /\ q.window.present
           /\ \E pre \in {"findFailed", "idsFailed"} : Clear(q, "live", pre, "ok", {})

\* the inputs of Find: k is the number of documents a failing mq.All read
FindStep ==
    /\ last.op = "none"
    /\ clr' = clr
    /\ \E q \in Queries :
        \/ \E out \in {"ok", "findFailed", "closeFailed"} : Find(q, out, 0)
        \/ \E k \in 0 .. MaxId - 1 :
            /\ k < Cardinality(DOMAIN store)
            /\ Find(q, "allFailed", k)

CountStep ==
    /\ last.op = "none"
    /\ clr' = clr
    /\ \E q \in Queries, out \in {"ok", "failed"} : Count(q, out)

Next ==
    \/ InsertStep
    \/ UpdateStep
    \/ DeleteStep
    \/ ClearStep
    \/ FindStep
    \/ CountStep
    \/ Return

Spec == Init /\ [][Next]_vars

\* the item translation alone, on every item
InitItem ==
    /\ store = << >>
    /\ last = [op |-> "none"]
    /\ clr = NoClear

TranslateStep ==
    /\ last.op = "none"
    /\ clr' = clr
    /\ \E i \in Items : Translate(i)

NextItem ==
    \/ TranslateStep
    \/ Return

SpecItem == InitItem /\ [][NextItem]_vars

\* the handling of the write's error alone, on every error and collection
GuardStep ==
    /\ last.op = "none"
    /\ clr' = clr
    /\ \E err \in WriteErrors, id \in IDs, ctx \in Contexts : ApplyGuard(err, id, ctx)

NextGuard ==
    \/ GuardStep
    \/ Return

SpecGuard == Init /\ [][NextGuard]_vars

(* documents inserted with any version tag, read, and deleted with the tag *)
(* of the item read or with a tag the caller made up                       *)
InitTags ==
    /\ store = << >>
    /\ last = [op |-> "none"]
    /\ clr = NoClear

InsertTagStep ==
    /\ last.op = "none"
    /\ clr' = clr
    /\ \E item \in TagItems : Insert(<<item>>, "live", "ok")

FindTagStep ==
    /\ last.op = "none"
    /\ clr' = clr
    /\ Find(ReadAll, "ok", 0)

DeleteTagStep ==
    /\ last.op = "none"
    /\ clr' = clr
    /\ \E id \in DOMAIN store :
        \E tag \in {ReadTag(store, id), TagA, SyntheticTag(id)} :
            Delete(id, tag, "live", "ok")

NextTags ==
    \/ InsertTagStep
    \/ FindTagStep
    \/ DeleteTagStep
    \/ Return

SpecTags == InitTags /\ [][NextTags]_vars

(* a windowed Clear whose pre-pass and bulk delete are separate steps,     *)
(* with inserts, updates and deletes of other callers between them         *)
InitConc ==
    /\ store \in ConcStores
    /\ last = [op |-> "none"]
    /\ clr = NoClear

ClearFindStep ==
    /\ last.op = "none"
    /\ \E q \in ConcQueries : ClearFind(q)

ConcInsertStep ==
    /\ last.op = "none"
    /\ \E item \in ConcItems : Insert(<<item>>, "live", "ok")
    /\ clr' = Tracked(store, store')

ConcUpdateStep ==
    /\ last.op = "none"
    /\ \E id \in IDs : Update(id, [etag |-> TagB, name |-> "y"], TagA, "live", "ok")
    /\ clr' = Tracked(store, store')

ConcDeleteStep ==
    /\ last.op = "none"
    /\ \E id \in IDs, tag \in RealTags : Delete(id, tag, "live", "ok")
    /\ clr' = Tracked(store, store')

NextConc ==
    \/ ClearFindStep
    \/ ClearDelete
    \/ ConcInsertStep
    \/ ConcUpdateStep
    \/ ConcDeleteStep
    \/ Return

SpecConc == InitConc /\ [][NextConc]_vars

(* ---------------------------------------------------------------------- *)
(* Properties                                                             *)
(* ---------------------------------------------------------------------- *)

\* the call went through: a live context and a store that answers
Undisturbed == last.ctx = "live" /\ last.out = "ok"

\* the documents of the collection before the call that the filter f selects
PreMatching(f) == {i \in DOMAIN last.pre : f = "all" \/ last.pre[i].name = f}

\* the identifiers the call removed
Removed == DOMAIN last.pre \ DOMAIN store

\* every document still stored is as it was before the call
RestUntouched == \A i \in DOMAIN store : i \in DOMAIN last.pre /\ store[i] = last.pre[i]

\* the version tag does not fit the stored document: a real tag that differs
\* from the stored one, or a synthetic tag for a document that has a tag
StaleTag(doc, tag) ==
    IF doc.hasEtag THEN tag # doc.etag ELSE tag \in RealTags

(* C1: an Update whose original version tag differs from the version       *)
(* stored for the identifier, the document existing, returns conflict.     *)
C1_StaleUpdateReturnsConflict ==
    (/\ last.op = "Update"
     /\ Undisturbed
     /\ last.id \in DOMAIN last.pre
     /\ StaleTag(last.pre[last.id], last.tag))
        => last.err = ErrConflict

(* C2: an Update never changes a stored document whose current version     *)
(* differs from the caller's original version tag (no lost update).        *)
C2_UpdateNeverOverwritesNewerVersion ==
    (/\ last.op = "Update"
     /\ last.id \in DOMAIN last.pre
     /\ StaleTag(last.pre[last.id], last.tag))
        => /\ store = last.pre
           /\ last.err # ErrNil

(* C3: a Delete whose version tag differs from the stored version, the     *)
(* document existing, returns conflict and leaves the document stored.     *)
C3_StaleDeleteReturnsConflict ==
    (/\ last.op = "Delete"
     /\ Undisturbed
     /\ last.id \in DOMAIN last.pre
     /\ StaleTag(last.pre[last.id], last.tag))
        => /\ last.err = ErrConflict
           /\ store = last.pre

(* C4: Update or Delete for an identifier that has no document returns     *)
(* not-found and leaves the store unchanged.                               *)
C4_AbsentDocumentReturnsNotFound ==
    (/\ last.op \in {"Update", "Delete"}
     /\ Undisturbed
     /\ last.id \notin DOMAIN last.pre)
        => /\ last.err = ErrNotFound
           /\ store = last.pre

(* C5: Update or Delete called with an already cancelled context returns   *)
(* the cancellation outcome, also when the store write reports success.    *)
C5_CancelledContextReturnsCancellation ==
    (/\ last.op \in {"Update", "Delete"}
     /\ last.ctx = "done")
        => last.err = ErrCtx

(* C6: Clear without a window, with no failure or cancellation, removes    *)
(* exactly the N documents that match the filter, leaves the others        *)
(* untouched and returns (N, nil).                                         *)
C6_ClearNoWindowRemovesMatches ==
    (/\ last.op = "Clear"
     /\ ~last.q.window.present
     /\ last.q.filter # "invalid"
     /\ Undisturbed)
        => /\ Removed = PreMatching(last.q.filter)
           /\ RestUntouched
           /\ last.res.n = Cardinality(PreMatching(last.q.filter))
           /\ last.res.err = ErrNil

\* a Clear by name that removed a document and left another one
C6_Witness ==
    /\ last.op = "Clear"
    /\ ~last.q.window.present
    /\ last.q.filter = "x"
    /\ Undisturbed
    /\ last.res.n = 1
    /\ Cardinality(DOMAIN store) = 1

\* the position (from 0) of a matching identifier under the query's sort
Position(i, f, sort) ==
    Cardinality({j \in PreMatching(f) : IF sort = "-id" THEN j > i ELSE j < i})

\* the matches that lie in the window
InWindow(f, sort, w) ==
    {i \in PreMatching(f) :
        /\ w.offset <= Position(i, f, sort)
        /\ Position(i, f, sort) < w.offset + w.limit}

(* C7: Clear with a window (offset o, limit l > 0), undisturbed, removes   *)
(* exactly the matches at positions o .. o+l-1 of the sort order, no other *)
(* document, and returns their number.                                     *)
C7_ClearWindowRemovesPositions ==
    (/\ last.op = "Clear"
     /\ last.q.window.present
     /\ last.q.window.limit > 0
     /\ last.prepass = "ok"
     /\ Undisturbed)
        => /\ Removed = InWindow(last.q.filter, last.q.sort, last.q.window)
           /\ RestUntouched
           /\ last.res.n = Cardinality(Removed)
           /\ last.res.err = ErrNil

\* a descending window of one at offset 1: the lower of two matches went
C7_Witness ==
    /\ last.op = "Clear"
    /\ last.q.window = [present |-> TRUE, offset |-> 1, limit |-> 1]
    /\ last.q.sort = "-id"
    /\ last.prepass = "ok"
    /\ Undisturbed
    /\ DOMAIN last.pre = {1, 2}
    /\ DOMAIN store = {2}
    /\ last.res.n = 1

(* C8: when the bulk delete reports a count, Clear returns that count with *)
(* the error: (removed, store error) after a partial delete, (count,       *)
(* cancellation) under a done context; an error never turns it into 0.     *)
C8_ClearKeepsCountWithError ==
    (/\ last.op = "Clear"
     /\ last.q.filter # "invalid"
     /\ last.prepass = "ok"
     /\ last.out \in {"ok", "partial"})
        => /\ last.res.n = Cardinality(Removed)
           /\ (last.out = "partial" => last.res.err = ErrStore)
           /\ (last.out = "ok" /\ last.ctx = "done" => last.res.err = ErrCtx)

\* a partial delete that removed a document and left a match behind
C8_Witness ==
    /\ last.op = "Clear"
    /\ last.out = "partial"
    /\ last.res.n = 1
    /\ last.res.err = ErrStore
    /\ PreMatching(last.q.filter) \cap DOMAIN store # {}

\* the number of documents the page of window w holds among n matches
PageSize(w, n) ==
    LET rest == IF n > w.offset THEN n - w.offset ELSE 0
    IN IF w.present /\ rest > w.limit THEN w.limit ELSE rest

(* C9: the total of Find follows the inference rules: -1 for a full page;  *)
(* for a short page or no window, offset + items when offset > 0 and an    *)
(* item was returned, -1 when offset > 0 and none was, the number of items *)
(* when there is no offset.  A read that completes returns the page.       *)
C9_FindTotalInference ==
    (/\ last.op = "Find"
     /\ last.res.list.hasList
     /\ ~(last.q.window.present /\ last.q.window.limit = 0))
        => LET w == last.q.window
               n == Len(last.res.list.items)
               total == last.res.list.total
           IN /\ (w.present /\ n = w.limit => total = -1)
              /\ (~w.present \/ n < w.limit =>
                    /\ (w.present /\ w.offset > 0 /\ n > 0 => total = w.offset + n)
                    /\ (w.present /\ w.offset > 0 /\ n = 0 => total = -1)
                    /\ (~w.present \/ w.offset = 0 => total = n))
              /\ (last.out = "ok" =>
                    n = PageSize(w, Cardinality(PreMatching(last.q.filter))))

\* a short page behind an offset: one item of two, and the total 2
C9_Witness ==
    /\ last.op = "Find"
    /\ last.out = "ok"
    /\ last.q.window = [present |-> TRUE, offset |-> 1, limit |-> 2]
    /\ last.res.list.hasList
    /\ Len(last.res.list.items) = 1
    /\ last.res.list.total = 2

(* C10: Find with a window of limit 0 returns no item, limit 0 and the     *)
(* count of the documents matching the filter as total, and issues only    *)
(* the Count store operation.                                              *)
C10_FindLimitZeroCounts ==
    (/\ last.op = "Find"
     /\ last.q.window.present
     /\ last.q.window.limit = 0
     /\ last.out = "ok")
        => /\ ~last.res.panic
           /\ last.res.err = ErrNil
           /\ last.res.list.hasList
           /\ last.res.list.items = << >>
           /\ last.res.list.limit = 0
           /\ last.res.list.total = Cardinality(PreMatching(last.q.filter))
           /\ last.res.calls = <<"CountDocuments">>

\* a limit of 0 over two stored documents: no item and a total of 2
C10_Witness ==
    /\ last.op = "Find"
    /\ last.q.window.present
    /\ last.q.window.limit = 0
    /\ last.out = "ok"
    /\ last.res.list.items = << >>
    /\ last.res.list.total = 2

(* C11: Count returns -1 with the error on every failure path, the failure *)
(* of the store's document count included; never a count >= 0 with an     *)
(* error.                                                                  *)
C11_CountFailureReturnsMinusOne ==
    (/\ last.op = "Count"
     /\ last.res.err # ErrNil)
        => last.res.n = -1

\* some item's identifier is stored before the call or repeated before it
HasDuplicate(items) ==
    \E n \in 1 .. Len(items) :
        \/ items[n].id \in DOMAIN last.pre
        \/ \E m \in 1 .. n - 1 : items[m].id = items[n].id

(* C13: an Insert carrying an identifier that is stored already or         *)
(* repeated in the sequence returns conflict under a live context, and an  *)
(* Insert whose context is done returns the cancellation error whatever    *)
(* the store reported.                                                     *)
C13_InsertDuplicateConflicts ==
    last.op = "Insert"
        => /\ (HasDuplicate(last.items) /\ Undisturbed => last.err = ErrConflict)
           /\ (last.ctx = "done" => last.err = ErrCtx)

\* two items with one identifier inserted into an empty collection: the
\* first is stored and the call returns conflict
C13_Witness ==
    /\ last.op = "Insert"
    /\ Undisturbed
    /\ last.pre = << >>
    /\ Len(last.items) = 2
    /\ last.items[1].id = last.items[2].id
    /\ DOMAIN store = {last.items[1].id}
    /\ last.err = ErrConflict

\* the call went past the limit-0 branch and the query translation
MainRead ==
    /\ last.op = "Find"
    /\ last.q.filter # "invalid"
    /\ ~(last.q.window.present /\ last.q.window.limit = 0)

(* C16: a failure of the store read in Find (the query call or the         *)
(* materialisation) is returned as that store error: no crash, and no item *)
(* list with a nil error.                                                  *)
C16_FindReadFailureReturned ==
    (/\ MainRead
     /\ last.out \in {"findFailed", "allFailed"})
        => /\ ~last.res.panic
           /\ last.res.err = ErrStore
           /\ ~last.res.list.hasList

(* C17: Clear with a window of limit 0 deletes no document and returns the *)
(* count 0, whatever the filter matches.                                   *)
C17_ClearLimitZeroDeletesNothing ==
    (/\ last.op = "Clear"
     /\ last.q.window.present
     /\ last.q.window.limit = 0
     /\ last.prepass = "ok"
     /\ Undisturbed)
        => /\ store = last.pre
           /\ last.res.n = 0

(* C18: whenever Find returns a nil error and a total other than -1, the   *)
(* total is the number of stored documents that match the filter.          *)
C18_FindTotalIsExact ==
    (/\ last.op = "Find"
     /\ ~last.res.panic
     /\ last.res.err = ErrNil
     /\ last.res.list.hasList
     /\ last.res.list.total # -1)
        => last.res.list.total = Cardinality(PreMatching(last.q.filter))

\* C18 for the reads that complete
C18_ExactWhenReadCompletes ==
    last.op = "Find" /\ last.out = "ok" => C18_FindTotalIsExact

(* C14: after an Update that returns success the stored payload is exactly *)
(* the new item's payload: a field of the previous document that the new   *)
(* item does not have is gone, and the identifier is unchanged.            *)
C14_UpdateReplacesPayload ==
    (/\ last.op = "Update"
     /\ Undisturbed
     /\ last.err = ErrNil
     /\ last.id \in DOMAIN last.pre)
        => /\ DOMAIN store = DOMAIN last.pre
           /\ store[last.id].name = last.item.name

\* the version tag an item has after the round trip
RoundTripTag(i) == IF i.ETag = << >> THEN SyntheticTag(i.ID) ELSE i.ETag

(* C12 as claimed: newItem(newMongoItem(I)) has the identifier, version    *)
(* tag (synthetic when absent), timestamp and payload mapping of I, for    *)
(* every payload.                                                          *)
C12_RoundTripEveryPayload ==
    last.op = "Translate"
        => /\ last.back.ID = last.item.ID
           /\ last.back.ETag = RoundTripTag(last.item)
           /\ last.back.Updated = last.item.Updated
           /\ last.back.Payload = last.item.Payload

(* C12 amended: identifier, version tag (synthetic when absent) and        *)
(* timestamp round-trip; the payload comes back with "id" set to the       *)
(* identifier and every other key as it was, so it is the payload of I     *)
(* exactly when I's payload has "id" equal to the identifier.              *)
C12_RoundTripWithIdentifier ==
    last.op = "Translate"
        => LET i == last.item
               p == i.Payload
               b == last.back
           IN /\ b.ID = i.ID
              /\ b.ETag = RoundTripTag(i)
              /\ b.Updated = i.Updated
              /\ DOMAIN b.Payload = DOMAIN p \cup {"id"}
              /\ b.Payload["id"] = i.ID
              /\ \A k \in DOMAIN p \ {"id"} : b.Payload[k] = p[k]
              /\ (b.Payload = p <=> ("id" \in DOMAIN p /\ p["id"] = i.ID))
              /\ "id" \notin DOMAIN last.mItem.Payload

\* an item without a version whose payload carries its identifier: the
\* payload comes back as it was, the tag as the synthetic one
C12_Witness ==
    /\ last.op = "Translate"
    /\ last.item.ETag = << >>
    /\ DOMAIN last.item.Payload = {"id", "name"}
    /\ last.item.Payload["id"] = last.item.ID
    /\ last.back.Payload = last.item.Payload
    /\ last.back.ETag = SyntheticTag(last.item.ID)

C19_DeleteWithReadTagRemoves ==
    (/\ last.op = "Delete"
     /\ Undisturbed
     /\ last.id \in DOMAIN last.pre
     /\ last.tag = ReadTag(last.pre, last.id))
        => last.id \notin DOMAIN store

====
